---- MODULE Spec2Model ----
(***************************************************************************)
(* A model of the hack assembler (package hack, assembler.go).             *)
(*                                                                         *)
(* Text is modelled as a sequence of one-character strings, so that the    *)
(* parser's splitting, trimming and character tests are computed and not   *)
(* assumed.  An encoded word is the sequence of its "0"/"1" characters.    *)
(* The modelled characters are ASCII: one byte each, so the parser's byte  *)
(* indexing (in[0], len(in)) and its iteration over runes see the same     *)
(* characters.                                                             *)
(*                                                                         *)
(* Three specifications share the variables:                               *)
(*   Spec       one run of Assemble over a program of source lines,        *)
(*              stepping through parse, pass 1, the merge of the           *)
(*              predefined symbols and pass 2;                             *)
(*   SpecParse  the line parsers called directly on bounded texts;         *)
(*   SpecC      codeCInstruction called directly on (dest, comp, jump).    *)
(***************************************************************************)
EXTENDS Integers, Sequences, FiniteSets, TLC

VARIABLES
    src,                  \* Assemble: the lines the reader holds
    at,                   \* Assemble: position of the run
    line,                 \* parse: lines scanned so far
    instructions,         \* parse: the instructions appended so far
    idx,                  \* code: instructions handled by the current loop
    pc,                   \* code: program counter of pass 1 (uint16)
    symbolTable,          \* code: literal -> address
    nextVariableAddress,  \* code: next free variable address (uint16)
    out,                  \* the writer: the chunks it has received
    err,                  \* Assemble: the kind of error returned, or "none"
    scanErr,              \* parse: the scanner stopped on an error (s.Err())
    arg,                  \* direct call: the argument
    res                   \* direct call: the function called and its result

vars == <<src, at, line, instructions, idx, pc, symbolTable,
          nextVariableAddress, out, err, scanErr, arg, res>>

(***************************************************************************)
(* Bounds of the model.                                                    *)
(***************************************************************************)
MaxLines == 3      \* lines of a program under Spec
MaxLen == 4        \* characters of a text under SpecParse
MaxNum == 32800    \* largest numeral n of "@n" under SpecParse

(***************************************************************************)
(* Characters and the helpers of package strings / unicode that the parser *)
(* calls.                                                                  *)
(***************************************************************************)
Digits == <<"0", "1", "2", "3", "4", "5", "6", "7", "8", "9">>

Letters ==
    {"A", "B", "C", "D", "E", "F", "G", "H", "I", "J", "K", "L", "M",
     "N", "O", "P", "Q", "R", "S", "T", "U", "V", "W", "X", "Y", "Z",
     "a", "b", "c", "d", "e", "f", "g", "h", "i", "j", "k", "l", "m",
     "n", "o", "p", "q", "r", "s", "t", "u", "v", "w", "x", "y", "z"}

Range(s) == {s[k] : k \in DOMAIN s}

IsDigit(c) == c \in Range(Digits)

IsLetter(c) == c \in Letters

IsSpace(c) == c \in {" ", "\t"}

DigitVal(c) == (CHOOSE k \in DOMAIN Digits : Digits[k] = c) - 1

\* s[from..] (Go's s[from-1:], 1-based here)
Drop(s, n) == SubSeq(s, n + 1, Len(s))

Take(s, n) == SubSeq(s, 1, n)

\* strings.TrimSpace
TrimSpace(s) ==
    LET keep == {k \in DOMAIN s : ~IsSpace(s[k])}
    IN  IF keep = {} THEN <<>>
        ELSE LET lo == CHOOSE k \in keep : \A m \in keep : k <= m
                 hi == CHOOSE k \in keep : \A m \in keep : k >= m
             IN  SubSeq(s, lo, hi)

\* strings.Trim(s, cutset)
Trim(s, cutset) ==
    LET keep == {k \in DOMAIN s : s[k] \notin cutset}
    IN  IF keep = {} THEN <<>>
        ELSE LET lo == CHOOSE k \in keep : \A m \in keep : k <= m
                 hi == CHOOSE k \in keep : \A m \in keep : k >= m
             IN  SubSeq(s, lo, hi)

\* strings.Cut(s, sep): [before, after, found]
Cut(s, sep) ==
    LET n == Len(sep)
        hits == {k \in 1..(Len(s) - n + 1) : SubSeq(s, k, k + n - 1) = sep}
    IN  IF hits = {} THEN [before |-> s, after |-> <<>>, found |-> FALSE]
        ELSE LET k == CHOOSE h \in hits : \A m \in hits : h <= m
             IN  [before |-> Take(s, k - 1), after |-> Drop(s, k + n - 1),
                  found |-> TRUE]

\* the largest value of 15 bits: strconv.ParseUint(in, 10, 15)
MaxUint15 == 32767

RECURSIVE ParseUintFrom(_, _, _)
ParseUintFrom(s, k, n) ==
    IF k > Len(s) THEN [ok |-> TRUE, v |-> n]
    ELSE IF ~IsDigit(s[k]) THEN [ok |-> FALSE, v |-> 0]
    ELSE IF n * 10 + DigitVal(s[k]) > MaxUint15 THEN [ok |-> FALSE, v |-> 0]
    ELSE ParseUintFrom(s, k + 1, n * 10 + DigitVal(s[k]))

\* ParseUint with a bit size of 16
ParseUint_16bit(s) ==
    LET RECURSIVE go(_, _)
        go(k, n) ==
            IF k > Len(s) THEN [ok |-> TRUE, v |-> n]
            ELSE IF ~IsDigit(s[k]) THEN [ok |-> FALSE, v |-> 0]
            ELSE IF n * 10 + DigitVal(s[k]) > 2 * MaxUint15 + 1
                 THEN [ok |-> FALSE, v |-> 0]
            ELSE go(k + 1, n * 10 + DigitVal(s[k]))
    IN  IF s = <<>> THEN [ok |-> FALSE, v |-> 0] ELSE go(1, 0)

\* strconv.ParseUint(s, 10, 15): a syntax error on the empty text and on any
\* character that is no decimal digit; a range error above MaxUint15
ParseUint(s) ==
    IF s = <<>> THEN [ok |-> FALSE, v |-> 0] ELSE ParseUintFrom(s, 1, 0)

(***************************************************************************)
(* The instructions (the structs aInstruction, cInstruction, label) and    *)
(* the line parsers.  A parser returns [ok |-> TRUE, ins |-> instruction]  *)
(* or [ok |-> FALSE] (the nil instruction and an error).                   *)
(***************************************************************************)
aInstruction(lit, isSymbol, value) ==
    [kind |-> "A", Literal |-> lit, IsSymbol |-> isSymbol, Value |-> value]

cInstruction(dest, comp, jump) ==
    [kind |-> "C", Dest |-> dest, Comp |-> comp, Jump |-> jump]

label(lit) == [kind |-> "L", Literal |-> lit]

Failed == [ok |-> FALSE]

Parsed(ins) == [ok |-> TRUE, ins |-> ins]

\* the runes validSymbolChars answers true for
validSymbolChars == Letters \cup Range(Digits) \cup {"_", ".", "$", ":"}

\* f is given as the set of the runes it answers true for
containsOnly(s, f) == \A k \in DOMAIN s : s[k] \in f

parseAInstruction(in) ==
    IF Len(in) < 2 THEN Failed
    ELSE LET rest == Drop(in, 1)
         IN  IF IsDigit(rest[1])
             THEN LET p == ParseUint(rest)
                  IN  IF ~p.ok THEN Failed
                      ELSE Parsed(aInstruction(rest, FALSE, p.v))
             ELSE IF ~containsOnly(rest, validSymbolChars) THEN Failed
             ELSE Parsed(aInstruction(rest, TRUE, 0))

parseCInstruction(in) ==
    LET c1 == Cut(in, <<"=">>)
        dest == IF c1.found THEN c1.before ELSE <<>>
        rest == IF c1.found THEN c1.after ELSE in
        c2 == Cut(rest, <<";">>)
    IN  Parsed(cInstruction(TrimSpace(dest), TrimSpace(c2.before),
                            TrimSpace(c2.after)))

parseLabel(in) ==
    IF Len(in) < 3 THEN Failed
    ELSE IF in[1] # "(" THEN Failed
    ELSE IF in[Len(in)] # ")" THEN Failed
    ELSE LET lit == Trim(in, {"(", ")"})
         IN  IF ~containsOnly(lit, validSymbolChars) THEN Failed
             ELSE Parsed(label(lit))

\* the body of parse's loop for one scanned line: [skip |-> TRUE] for a
\* line that is blank once its comment is cut, else the parser's result
parseLine(text) ==
    LET command == TrimSpace(Cut(text, <<"/", "/">>).before)
    IN  IF Len(command) = 0 THEN [skip |-> TRUE, ok |-> TRUE]
        ELSE LET r == IF command[1] = "@" THEN parseAInstruction(command)
                      ELSE IF command[1] = "(" THEN parseLabel(command)
                      ELSE parseCInstruction(command)
             IN  IF r.ok THEN [skip |-> FALSE, ok |-> TRUE, ins |-> r.ins]
                 ELSE [skip |-> FALSE, ok |-> FALSE]

(***************************************************************************)
(* The fixed tables and the encoders.                                      *)
(***************************************************************************)
predefinedSymbols ==
    <<"S", "P">> :> 0 @@
    <<"L", "C", "L">> :> 1 @@
    <<"A", "R", "G">> :> 2 @@
    <<"T", "H", "I", "S">> :> 3 @@
    <<"T", "H", "A", "T">> :> 4 @@
    <<"R", "0">> :> 0 @@
    <<"R", "1">> :> 1 @@
    <<"R", "2">> :> 2 @@
    <<"R", "3">> :> 3 @@
    <<"R", "4">> :> 4 @@
    <<"R", "5">> :> 5 @@
    <<"R", "6">> :> 6 @@
    <<"R", "7">> :> 7 @@
    <<"R", "8">> :> 8 @@
    <<"R", "9">> :> 9 @@
    <<"R", "1", "0">> :> 10 @@
    <<"R", "1", "1">> :> 11 @@
    <<"R", "1", "2">> :> 12 @@
    <<"R", "1", "3">> :> 13 @@
    <<"R", "1", "4">> :> 14 @@
    <<"R", "1", "5">> :> 15 @@
    <<"S", "C", "R", "E", "E", "N">> :> 16384 @@
    <<"K", "B", "D">> :> 24576

compToA ==
    <<"0">> :> <<"0">> @@
    <<"1">> :> <<"0">> @@
    <<"-", "1">> :> <<"0">> @@
    <<"D">> :> <<"0">> @@
    <<"A">> :> <<"0">> @@
    <<"!", "D">> :> <<"0">> @@
    <<"!", "A">> :> <<"0">> @@
    <<"-", "D">> :> <<"0">> @@
    <<"-", "A">> :> <<"0">> @@
    <<"D", "+", "1">> :> <<"0">> @@
    <<"A", "+", "1">> :> <<"0">> @@
    <<"D", "-", "1">> :> <<"0">> @@
    <<"A", "-", "1">> :> <<"0">> @@
    <<"D", "+", "A">> :> <<"0">> @@
    <<"D", "-", "A">> :> <<"0">> @@
    <<"A", "-", "D">> :> <<"0">> @@
    <<"D", "&", "A">> :> <<"0">> @@
    <<"D", "|", "A">> :> <<"0">> @@
    <<"M">> :> <<"1">> @@
    <<"!", "M">> :> <<"1">> @@
    <<"-", "M">> :> <<"1">> @@
    <<"M", "+", "1">> :> <<"1">> @@
    <<"M", "-", "1">> :> <<"1">> @@
    <<"D", "+", "M">> :> <<"1">> @@
    <<"D", "-", "M">> :> <<"1">> @@
    <<"M", "-", "D">> :> <<"1">> @@
    <<"D", "&", "M">> :> <<"1">> @@
    <<"D", "|", "M">> :> <<"1">>

compToC ==
    <<"0">> :> <<"1", "0", "1", "0", "1", "0">> @@
    <<"1">> :> <<"1", "1", "1", "1", "1", "1">> @@
    <<"-", "1">> :> <<"1", "1", "1", "0", "1", "0">> @@
    <<"D">> :> <<"0", "0", "1", "1", "0", "0">> @@
    <<"A">> :> <<"1", "1", "0", "0", "0", "0">> @@
    <<"!", "D">> :> <<"0", "0", "1", "1", "0", "1">> @@
    <<"!", "A">> :> <<"1", "1", "0", "0", "0", "1">> @@
    <<"-", "D">> :> <<"0", "0", "1", "1", "1", "1">> @@
    <<"-", "A">> :> <<"1", "1", "0", "0", "1", "1">> @@
    <<"D", "+", "1">> :> <<"0", "1", "1", "1", "1", "1">> @@
    <<"A", "+", "1">> :> <<"1", "1", "0", "1", "1", "1">> @@
    <<"D", "-", "1">> :> <<"0", "0", "1", "1", "1", "0">> @@
    <<"A", "-", "1">> :> <<"1", "1", "0", "0", "1", "0">> @@
    <<"D", "+", "A">> :> <<"0", "0", "0", "0", "1", "0">> @@
    <<"D", "-", "A">> :> <<"0", "1", "0", "0", "1", "1">> @@
    <<"A", "-", "D">> :> <<"0", "0", "0", "1", "1", "1">> @@
    <<"D", "&", "A">> :> <<"0", "0", "0", "0", "0", "0">> @@
    <<"D", "|", "A">> :> <<"0", "1", "0", "1", "0", "1">> @@
    <<"M">> :> <<"1", "1", "0", "0", "0", "0">> @@
    <<"!", "M">> :> <<"1", "1", "0", "0", "0", "1">> @@
    <<"-", "M">> :> <<"1", "1", "0", "0", "1", "1">> @@
    <<"M", "+", "1">> :> <<"1", "1", "0", "1", "1", "1">> @@
    <<"M", "-", "1">> :> <<"1", "1", "0", "0", "1", "0">> @@
    <<"D", "+", "M">> :> <<"0", "0", "0", "0", "1", "0">> @@
    <<"D", "-", "M">> :> <<"0", "1", "0", "0", "1", "1">> @@
    <<"M", "-", "D">> :> <<"0", "0", "0", "1", "1", "1">> @@
    <<"D", "&", "M">> :> <<"0", "0", "0", "0", "0", "0">> @@
    <<"D", "|", "M">> :> <<"0", "1", "0", "1", "0", "1">>

destToD ==
    <<"M">> :> <<"0", "0", "1">> @@
    <<"D">> :> <<"0", "1", "0">> @@
    <<"M", "D">> :> <<"0", "1", "1">> @@
    <<"A">> :> <<"1", "0", "0">> @@
    <<"A", "M">> :> <<"1", "0", "1">> @@
    <<"A", "D">> :> <<"1", "1", "0">> @@
    <<"A", "M", "D">> :> <<"1", "1", "1">>

jumpToJ ==
    <<"J", "G", "T">> :> <<"0", "0", "1">> @@
    <<"J", "E", "Q">> :> <<"0", "1", "0">> @@
    <<"J", "G", "E">> :> <<"0", "1", "1">> @@
    <<"J", "L", "T">> :> <<"1", "0", "0">> @@
    <<"J", "N", "E">> :> <<"1", "0", "1">> @@
    <<"J", "L", "E">> :> <<"1", "1", "0">> @@
    <<"J", "M", "P">> :> <<"1", "1", "1">>

codeAInstruction(instruction) == instruction.Value

RECURSIVE Binary(_)
\* the binary digits of v, most significant first, without padding
Binary(v) ==
    IF v < 2 THEN <<Digits[v + 1]>>
    ELSE Binary(v \div 2) \o <<Digits[(v % 2) + 1]>>

RECURSIVE ZeroPad(_, _)
ZeroPad(s, width) == IF Len(s) >= width THEN s ELSE ZeroPad(<<"0">> \o s, width)

Bin16_unpadded(v) == Binary(v)

\* the verb %016b applied to a uint16
Bin16(v) == ZeroPad(Binary(v), 16)

NoCode == [ok |-> FALSE, code |-> <<>>]

codeCInstruction_noEmptyDest(instruction) ==
    IF instruction.Comp \notin DOMAIN compToA THEN NoCode
    ELSE IF instruction.Comp \notin DOMAIN compToC THEN NoCode
    ELSE IF instruction.Dest \notin DOMAIN destToD THEN NoCode
    ELSE IF instruction.Jump # <<>> /\ instruction.Jump \notin DOMAIN jumpToJ
         THEN NoCode
    ELSE [ok |-> TRUE,
          code |-> <<"1", "1", "1">> \o compToA[instruction.Comp]
                   \o compToC[instruction.Comp]
                   \o destToD[instruction.Dest]
                   \o (IF instruction.Jump = <<>> THEN <<"0", "0", "0">>
                       ELSE jumpToJ[instruction.Jump])]

codeCInstruction_noABit(instruction) ==
    IF instruction.Comp \notin DOMAIN compToA THEN NoCode
    ELSE IF instruction.Comp \notin DOMAIN compToC THEN NoCode
    ELSE IF instruction.Dest # <<>> /\ instruction.Dest \notin DOMAIN destToD
         THEN NoCode
    ELSE IF instruction.Jump # <<>> /\ instruction.Jump \notin DOMAIN jumpToJ
         THEN NoCode
    ELSE [ok |-> TRUE,
          code |-> <<"1", "1", "1", "0">> \o compToC[instruction.Comp]
                   \o (IF instruction.Dest = <<>> THEN <<"0", "0", "0">>
                       ELSE destToD[instruction.Dest])
                   \o (IF instruction.Jump = <<>> THEN <<"0", "0", "0">>
                       ELSE jumpToJ[instruction.Jump])]

codeCInstruction(instruction) ==
    IF instruction.Comp \notin DOMAIN compToA THEN NoCode
    ELSE IF instruction.Comp \notin DOMAIN compToC THEN NoCode
    ELSE IF instruction.Dest # <<>> /\ instruction.Dest \notin DOMAIN destToD
         THEN NoCode
    ELSE IF instruction.Jump # <<>> /\ instruction.Jump \notin DOMAIN jumpToJ
         THEN NoCode
    ELSE [ok |-> TRUE,
          code |-> <<"1", "1", "1">> \o compToA[instruction.Comp]
                   \o compToC[instruction.Comp]
                   \o (IF instruction.Dest = <<>> THEN <<"0", "0", "0">>
                       ELSE destToD[instruction.Dest])
                   \o (IF instruction.Jump = <<>> THEN <<"0", "0", "0">>
                       ELSE jumpToJ[instruction.Jump])]

(***************************************************************************)
(* Direct calls of the parsers and the encoders, as the package's tests    *)
(* make them: the argument is drawn by Init, one action per function.      *)
(***************************************************************************)
NotCalled == [fn |-> "none"]

\* the variables of a run of Assemble, when no run is modelled
NoRun ==
    /\ src = <<>>
    /\ at = "idle"
    /\ line = 0
    /\ instructions = <<>>
    /\ idx = 0
    /\ pc = 0
    /\ symbolTable = <<>>
    /\ nextVariableAddress = 16
    /\ out = <<>>
    /\ err = "none"
    /\ scanErr = FALSE

runVars == <<src, at, line, instructions, idx, pc, symbolTable,
             nextVariableAddress, out, err, scanErr>>

Alphabet == {"@", "(", ")", "=", ";", " ", "2", "D", "-"}

Texts == UNION {[1..n -> Alphabet] : n \in 0..MaxLen}

RECURSIVE Decimal(_)
\* the decimal numeral of n
Decimal(n) ==
    IF n < 10 THEN <<Digits[n + 1]>>
    ELSE Decimal(n \div 10) \o <<Digits[(n % 10) + 1]>>

Numerals == {<<"@">> \o Decimal(n) : n \in 0..MaxNum}

InitParse ==
    /\ NoRun
    /\ arg \in Texts \cup Numerals
    /\ res = NotCalled

CallParseAInstruction ==
    /\ res = NotCalled
    /\ res' = [fn |-> "parseAInstruction", r |-> parseAInstruction(arg)]
    /\ UNCHANGED <<runVars, arg>>

CallParseCInstruction ==
    /\ res = NotCalled
    /\ res' = [fn |-> "parseCInstruction", r |-> parseCInstruction(arg)]
    /\ UNCHANGED <<runVars, arg>>

CallParseLabel ==
    /\ res = NotCalled
    /\ res' = [fn |-> "parseLabel", r |-> parseLabel(arg)]
    /\ UNCHANGED <<runVars, arg>>

\* code's case *aInstruction for a constant: the word it formats
EmitConstant ==
    /\ res.fn = "parseAInstruction"
    /\ res.r.ok
    /\ ~res.r.ins.IsSymbol
    /\ res' = [fn |-> "code", ins |-> res.r.ins,
               word |-> Bin16(codeAInstruction(res.r.ins))]
    /\ UNCHANGED <<runVars, arg>>

NextParse ==
    \/ CallParseAInstruction
    \/ CallParseCInstruction
    \/ CallParseLabel
    \/ EmitConstant

SpecParse == InitParse /\ [][NextParse]_vars

DestArgs == DOMAIN destToD \cup {<<>>, <<"X">>, <<"D", "M">>}

CompArgs == DOMAIN compToC \cup {<<>>, <<"X">>, <<"d">>}

JumpArgs == DOMAIN jumpToJ \cup {<<>>, <<"J">>, <<"j", "m", "p">>}

InitC ==
    /\ NoRun
    /\ arg \in {cInstruction(d, c, j) : d \in DestArgs, c \in CompArgs, j \in JumpArgs}
    /\ res = NotCalled

CallCodeCInstruction ==
    /\ res = NotCalled
    /\ res' = [fn |-> "codeCInstruction", r |-> codeCInstruction(arg)]
    /\ UNCHANGED <<runVars, arg>>

NextC == CallCodeCInstruction

SpecC == InitC /\ [][NextC]_vars

(***************************************************************************)
(* One run of Assemble: parse, then code's pass 1, the merge of the        *)
(* predefined symbols and pass 2, one loop iteration per step.             *)
(***************************************************************************)
\* the source lines a program is made of
ProgramLines ==
    { <<"@", "5">>,
      <<"@", "i">>,
      <<"@", "j">>,
      <<"@", "L">>,
      <<"(", "L", ")">>,
      <<"@", "K", "B", "D">>,
      <<"(", "R", "0", ")">>,
      <<" ", "D", "=", "A", " ", "/", "/", " ", "c">>,
      <<"0", ";", "J", "M", "P">>,
      <<"X">>,
      <<"@", "-", "2">>,
      <<"/", "/", "c">> }

Programs == UNION {[1..n -> ProgramLines] : n \in 0..MaxLines}

EmptyTable == <<>>

Put(table, k, v) == (k :> v) @@ table

Uint16(n) == n % 65536

labelError_noReserved(table, lit) ==
    IF lit \in DOMAIN table THEN "redeclared" ELSE "none"

\* code's two checks of a label declaration in pass 1
labelError(table, lit) ==
    IF lit \in DOMAIN table THEN "redeclared"
    ELSE IF lit \in DOMAIN predefinedSymbols THEN "predefined"
    ELSE "none"

declareLabel_afterIncrement(table, lit, counter) == Put(table, lit, Uint16(counter + 1))

\* symbolTable[v.Literal] = pc
declareLabel(table, lit, counter) == Put(table, lit, counter)

resolve_notRecorded(table, next, ins) ==
    IF ins.Literal \in DOMAIN table
    THEN [v |-> table[ins.Literal], table |-> table, next |-> next]
    ELSE [v |-> next, table |-> table, next |-> Uint16(next + 1)]

\* pass 2's lookup of a symbolic A-instruction: its value, and the table and
\* the next variable address afterwards
resolve(table, next, ins) ==
    IF ins.Literal \in DOMAIN table
    THEN [v |-> table[ins.Literal], table |-> table, next |-> next]
    ELSE [v |-> next, table |-> Put(table, ins.Literal, next),
          next |-> Uint16(next + 1)]

resolved_valueDropped(ins, v) == ins

\* ains = &aInstruction{Value: v}
resolved(ins, v) == aInstruction(<<>>, FALSE, v)

\* what a call of the writer may answer for a chunk: the bytes it took and
\* whether it reported an error
WriteOutcomes(chunk) ==
    [n : {0, Len(chunk) - 1, Len(chunk)}, failed : BOOLEAN]

Written(chunk, n) == IF n = 0 THEN <<>> ELSE <<Take(chunk, n)>>

Init ==
    /\ src \in Programs
    /\ at = "parse"
    /\ line = 0
    /\ instructions = <<>>
    /\ idx = 0
    /\ pc = 0
    /\ symbolTable = EmptyTable
    /\ nextVariableAddress = 16
    /\ out = <<>>
    /\ err = "none"
    /\ scanErr = FALSE
    /\ arg = <<>>
    /\ res = NotCalled

codeVars == <<idx, pc, symbolTable, nextVariableAddress, out>>

\* one iteration of parse's loop: s.Scan() answered true
ScanLine ==
    /\ at = "parse"
    /\ line < Len(src)
    /\ LET r == parseLine(src[line + 1])
       IN  /\ line' = line + 1
           /\ IF r.skip THEN UNCHANGED <<instructions, at, err>>
              ELSE IF ~r.ok
                   THEN /\ at' = "returned"
                        /\ err' = "parse"
                        /\ UNCHANGED instructions
              ELSE /\ instructions' = Append(instructions, r.ins)
                   /\ UNCHANGED <<at, err>>
    /\ UNCHANGED <<src, codeVars, scanErr, arg, res>>

\* s.Scan() answered false at the end of the input: parse returns the
\* instructions and Assemble calls code
ScanEnds ==
    /\ at = "parse"
    /\ line = Len(src)
    /\ at' = "pass1"
    /\ UNCHANGED <<src, line, instructions, codeVars, err, scanErr, arg, res>>

\* s.Scan() answered false because the reader or the scanner failed: the
\* loop ends the same way, and parse does not look at s.Err()
ScanFails ==
    /\ at = "parse"
    /\ line < Len(src)
    /\ scanErr' = TRUE
    /\ at' = "pass1"
    /\ UNCHANGED <<src, line, instructions, codeVars, err, arg, res>>

\* one iteration of code's first loop
Pass1Step ==
    /\ at = "pass1"
    /\ idx < Len(instructions)
    /\ LET ins == instructions[idx + 1]
       IN  IF ins.kind = "L"
           THEN LET e == labelError(symbolTable, ins.Literal)
                IN  IF e # "none"
                    THEN /\ at' = "returned"
                         /\ err' = e
                         /\ UNCHANGED <<idx, pc, symbolTable>>
                    ELSE /\ symbolTable' = declareLabel(symbolTable, ins.Literal, pc)
                         /\ idx' = idx + 1
                         /\ UNCHANGED <<at, err, pc>>
           ELSE /\ pc' = Uint16(pc + 1)
                /\ idx' = idx + 1
                /\ UNCHANGED <<at, err, symbolTable>>
    /\ UNCHANGED <<src, line, instructions, nextVariableAddress, out, scanErr,
                   arg, res>>

\* the end of the first loop and the loop over predefinedSymbols
MergePredefined ==
    /\ at = "pass1"
    /\ idx = Len(instructions)
    /\ symbolTable' = predefinedSymbols @@ symbolTable
    /\ at' = "pass2"
    /\ idx' = 0
    /\ UNCHANGED <<src, line, instructions, pc, nextVariableAddress, out, err,
                   scanErr, arg, res>>

\* fmt.Fprintf of one line and the two checks of what it answered
WriteLine(word) ==
    LET chunk == word \o <<"\n">>
    IN  \E w \in WriteOutcomes(chunk) :
            /\ out' = out \o Written(chunk, w.n)
            /\ IF w.n # 17 \/ w.failed
               THEN /\ at' = "returned"
                    /\ err' = "write"
                    /\ UNCHANGED idx
               ELSE /\ idx' = idx + 1
                    /\ UNCHANGED <<at, err>>

\* one iteration of code's second loop
Pass2Step ==
    /\ at = "pass2"
    /\ idx < Len(instructions)
    /\ LET ins == instructions[idx + 1]
       IN  CASE ins.kind = "A" ->
                  IF ins.IsSymbol
                  THEN LET r == resolve(symbolTable, nextVariableAddress, ins)
                       IN  /\ symbolTable' = r.table
                           /\ nextVariableAddress' = r.next
                           /\ WriteLine(Bin16(codeAInstruction(resolved(ins, r.v))))
                  ELSE /\ WriteLine(Bin16(codeAInstruction(ins)))
                       /\ UNCHANGED <<symbolTable, nextVariableAddress>>
            [] ins.kind = "C" ->
                  LET c == codeCInstruction(ins)
                  IN  /\ IF ~c.ok
                         THEN /\ at' = "returned"
                              /\ err' = "encode"
                              /\ UNCHANGED <<idx, out>>
                         ELSE WriteLine(c.code)
                      /\ UNCHANGED <<symbolTable, nextVariableAddress>>
            [] ins.kind = "L" ->
                  /\ idx' = idx + 1
                  /\ UNCHANGED <<at, err, out, symbolTable, nextVariableAddress>>
    /\ UNCHANGED <<src, line, instructions, pc, scanErr, arg, res>>

\* the end of the second loop: code and Assemble return nil
Return ==
    /\ at = "pass2"
    /\ idx = Len(instructions)
    /\ at' = "returned"
    /\ UNCHANGED <<src, line, instructions, codeVars, err, scanErr, arg, res>>

Next ==
    \/ ScanLine
    \/ ScanEnds
    \/ ScanFails
    \/ Pass1Step
    \/ MergePredefined
    \/ Pass2Step
    \/ Return

Spec == Init /\ [][Next]_vars

(***************************************************************************)
(* What the claims speak of, stated apart from the operators above.        *)
(***************************************************************************)
Succeeded == at = "returned" /\ err = "none"

IsBit(c) == c = "0" \/ c = "1"

RECURSIVE BinValue(_)
\* the number a sequence of binary digits denotes
BinValue(w) ==
    IF w = <<>> THEN 0
    ELSE 2 * BinValue(Take(w, Len(w) - 1)) + (IF w[Len(w)] = "1" THEN 1 ELSE 0)

RECURSIVE DecValue(_)
\* the number a sequence of decimal digits denotes
DecValue(w) ==
    IF w = <<>> THEN 0
    ELSE 10 * DecValue(Take(w, Len(w) - 1)) + DigitVal(w[Len(w)])

\* a 16-character word of binary digits followed by one newline
IsLine(chunk) ==
    /\ Len(chunk) = 17
    /\ \A k \in 1..16 : IsBit(chunk[k])
    /\ chunk[17] = "\n"

NonLabelsBefore(p) ==
    Cardinality({k \in 1..(p - 1) : instructions[k].kind # "L"})

\* the number the line written for the instruction at p denotes
Emitted(p) == BinValue(Take(out[NonLabelsBefore(p) + 1], 16))

SymbolRefs == {p \in DOMAIN instructions :
                  instructions[p].kind = "A" /\ instructions[p].IsSymbol}

Declarations(lit) == {d \in DOMAIN instructions : instructions[d] = label(lit)}

IsVariable(lit) ==
    lit \notin DOMAIN predefinedSymbols /\ Declarations(lit) = {}

VariableRefs == {p \in SymbolRefs : IsVariable(instructions[p].Literal)}

FirstUse(lit) ==
    CHOOSE p \in VariableRefs :
        /\ instructions[p].Literal = lit
        /\ \A q \in VariableRefs : instructions[q].Literal = lit => p <= q

\* how many distinct variables are first used before the first use of lit
Rank(lit) ==
    Cardinality({instructions[q].Literal : q \in
                    {q \in VariableRefs : q < FirstUse(lit)}})

\* C1: when code succeeds, a reference to a declared label is emitted as
\* the number of non-label instructions before the declaration, a reference
\* to a predefined symbol as its fixed value, and only the other symbols
\* have consumed variable addresses.
C1_LabelsAndPredefined ==
    Succeeded =>
        /\ \A p \in SymbolRefs :
              LET lit == instructions[p].Literal
              IN  /\ \A d \in Declarations(lit) : Emitted(p) = NonLabelsBefore(d)
                  /\ lit \in DOMAIN predefinedSymbols =>
                        Emitted(p) = predefinedSymbols[lit]
        /\ nextVariableAddress =
              16 + Cardinality({instructions[p].Literal : p \in VariableRefs})

C1_Witness ==
    /\ Succeeded
    /\ \E p, q \in SymbolRefs : \E d \in DOMAIN instructions :
          /\ p < d
          /\ d \in Declarations(instructions[p].Literal)
          /\ Emitted(p) = 1
          /\ instructions[q].Literal \in DOMAIN predefinedSymbols

\* C2: when code succeeds, the k-th distinct variable (k from 0) in order
\* of first occurrence is emitted as 16+k at every one of its occurrences.
C2_VariablesInOrder ==
    Succeeded =>
        \A p \in VariableRefs : Emitted(p) = 16 + Rank(instructions[p].Literal)

C2_Witness ==
    /\ Succeeded
    /\ \E p, q, r \in VariableRefs :
          /\ p < q /\ q < r
          /\ instructions[p].Literal = instructions[r].Literal
          /\ instructions[p].Literal # instructions[q].Literal
          /\ Emitted(r) = 16
          /\ Emitted(q) = 17

\* a label is declared a second time, or carries a predefined symbol's name
HasBadLabel ==
    \E d \in DOMAIN instructions :
        /\ instructions[d].kind = "L"
        /\ \/ instructions[d].Literal \in DOMAIN predefinedSymbols
           \/ \E e \in 1..(d - 1) : instructions[e] = instructions[d]

InCode == at \in {"pass1", "pass2"} \/ (at = "returned" /\ err # "parse")

\* C3: code, given a sequence with a redeclared label or a label named like
\* a predefined symbol, never gets past pass 1, returns an error and writes
\* no line.
C3_BadLabelsRejected ==
    (InCode /\ HasBadLabel) =>
        /\ out = <<>>
        /\ at # "pass2"
        /\ at = "returned" => err \in {"redeclared", "predefined"}

C3_Witness ==
    /\ at = "returned"
    /\ err = "redeclared"
    /\ \E k \in DOMAIN instructions : instructions[k].kind # "L"

\* C4: when Assemble succeeds the output holds one line per non-label
\* instruction, in source order, each the encoding of its instruction and
\* each 16 binary digits and a newline.
C4_OneLinePerInstruction ==
    Succeeded =>
        /\ Len(out) = NonLabelsBefore(Len(instructions) + 1)
        /\ \A k \in DOMAIN out : IsLine(out[k])
        /\ \A p \in DOMAIN instructions :
              LET ins == instructions[p]
              IN  /\ ins.kind = "C" =>
                        Take(out[NonLabelsBefore(p) + 1], 16) = codeCInstruction(ins).code
                  /\ (ins.kind = "A" /\ ~ins.IsSymbol) => Emitted(p) = ins.Value
                  /\ (ins.kind = "A" /\ ins.IsSymbol) =>
                        Emitted(p) = symbolTable[ins.Literal]

C4_Witness ==
    /\ Succeeded
    /\ Len(out) = 2
    /\ \E a, b, c \in DOMAIN instructions :
          /\ instructions[a].kind = "L"
          /\ instructions[b].kind = "A"
          /\ instructions[c].kind = "C"

\* C8 (as claimed): whenever Assemble returns a parse error, a label error
\* or an unknown-mnemonic error, nothing has been written to the output.
C8_NoOutputOnError ==
    (at = "returned" /\ err \in {"parse", "redeclared", "predefined", "encode"})
        => out = <<>>

ValidC(ins) ==
    /\ ins.Comp \in DOMAIN compToA
    /\ ins.Dest = <<>> \/ ins.Dest \in DOMAIN destToD
    /\ ins.Jump = <<>> \/ ins.Jump \in DOMAIN jumpToJ

\* C5: codeCInstruction succeeds exactly on a comp of the 28-entry table, a
\* dest that is empty or of the 7-entry table and a jump that is empty or of
\* the 7-entry table; the word is 111, a-bit, c-bits, d-bits, j-bits (000
\* for an empty dest or jump), 16 characters; otherwise no word is returned.
C5_CodeCInstruction ==
    /\ Cardinality(DOMAIN compToA) = 28
    /\ DOMAIN compToC = DOMAIN compToA
    /\ Cardinality(DOMAIN destToD) = 7
    /\ Cardinality(DOMAIN jumpToJ) = 7
    /\ res.fn = "codeCInstruction" =>
          /\ res.r.ok <=> ValidC(arg)
          /\ res.r.ok =>
                /\ Len(res.r.code) = 16
                /\ res.r.code =
                      <<"1", "1", "1">> \o compToA[arg.Comp] \o compToC[arg.Comp]
                      \o (IF arg.Dest = <<>> THEN <<"0", "0", "0">>
                          ELSE destToD[arg.Dest])
                      \o (IF arg.Jump = <<>> THEN <<"0", "0", "0">>
                          ELSE jumpToJ[arg.Jump])
          /\ ~res.r.ok => res.r.code = <<>>

C5_Witness ==
    /\ res.fn = "codeCInstruction"
    /\ res.r.ok
    /\ arg.Dest = <<>>
    /\ arg.Jump = <<"J", "M", "P">>
    /\ res.r.code = <<"1", "1", "1", "0", "1", "0", "1", "0", "1", "0",
                      "0", "0", "0", "1", "1", "1">>

\* the fields a word decodes to against the fixed tables
DecodeC(w) ==
    LET comps == {c \in DOMAIN compToA : compToA[c] \o compToC[c] = SubSeq(w, 4, 10)}
        dests == {d \in DOMAIN destToD : destToD[d] = SubSeq(w, 11, 13)}
        jumps == {j \in DOMAIN jumpToJ : jumpToJ[j] = SubSeq(w, 14, 16)}
    IN  [Comp |-> IF comps = {} THEN <<>> ELSE CHOOSE c \in comps : TRUE,
         Dest |-> IF SubSeq(w, 11, 13) = <<"0", "0", "0">> \/ dests = {}
                  THEN <<>> ELSE CHOOSE d \in dests : TRUE,
         Jump |-> IF SubSeq(w, 14, 16) = <<"0", "0", "0">> \/ jumps = {}
                  THEN <<>> ELSE CHOOSE j \in jumps : TRUE]

\* C7: decoding the word codeCInstruction returns for a valid instruction
\* against the tables gives back its dest, comp and jump, and no two
\* entries of a table share their bits, so equal words mean equal fields.
C7_RoundTrip ==
    /\ \A c, e \in DOMAIN compToA :
          compToA[c] \o compToC[c] = compToA[e] \o compToC[e] => c = e
    /\ \A d, e \in DOMAIN destToD :
          destToD[d] = destToD[e] => d = e
    /\ \A j, e \in DOMAIN jumpToJ :
          jumpToJ[j] = jumpToJ[e] => j = e
    /\ (res.fn = "codeCInstruction" /\ res.r.ok) =>
          /\ Len(res.r.code) = 16
          /\ DecodeC(res.r.code) =
                [Comp |-> arg.Comp, Dest |-> arg.Dest, Jump |-> arg.Jump]

C7_Witness ==
    /\ res.fn = "codeCInstruction"
    /\ res.r.ok
    /\ arg = cInstruction(<<"A", "M", "D">>, <<"D", "|", "M">>, <<"J", "N", "E">>)
    /\ DecodeC(res.r.code) =
          [Comp |-> <<"D", "|", "M">>, Dest |-> <<"A", "M", "D">>,
           Jump |-> <<"J", "N", "E">>]

AllDigits(w) == \A k \in DOMAIN w : IsDigit(w[k])

\* the text is "@" followed by something that starts with a digit
StartsWithDigit(text) == Len(text) >= 2 /\ text[1] = "@" /\ IsDigit(text[2])

IsAddress(w) == AllDigits(w) /\ DecValue(w) <= 32767

\* C6: "@n" for n in 0..32767 parses to a constant of value n and is emitted
\* as the 16 binary digits of n, the first of them 0; a text that starts with
\* a digit after the "@" and is no decimal number of at most 32767 is
\* rejected, and so are "@" and "@-2".
C6_Constants ==
    /\ (res.fn = "parseAInstruction" /\ StartsWithDigit(arg)) =>
          /\ res.r.ok <=> IsAddress(Drop(arg, 1))
          /\ res.r.ok =>
                res.r.ins = aInstruction(Drop(arg, 1), FALSE, DecValue(Drop(arg, 1)))
    /\ (res.fn = "parseAInstruction" /\ arg \in {<<"@">>, <<"@", "-", "2">>}) =>
          ~res.r.ok
    /\ (res.fn = "code" /\ StartsWithDigit(arg)) =>
          /\ Len(res.word) = 16
          /\ \A k \in 1..16 : IsBit(res.word[k])
          /\ res.word[1] = "0"
          /\ BinValue(res.word) = DecValue(Drop(arg, 1))

C6_Witness ==
    /\ res.fn = "code"
    /\ arg = <<"@", "3", "2", "7", "6", "7">>
    /\ res.word = <<"0", "1", "1", "1", "1", "1", "1", "1", "1", "1", "1",
                    "1", "1", "1", "1", "1">>

\* the comp field of a compute-instruction line: what lies between the
\* first "=" (if any) and the first ";" after it (if any), trimmed
CompField(text) ==
    LET afterEq == IF \E k \in DOMAIN text : text[k] = "="
                   THEN Cut(text, <<"=">>).after ELSE text
    IN  TrimSpace(Cut(afterEq, <<";">>).before)

Enclosed(text) == SubSeq(text, 2, Len(text) - 1)

IsSymbolText(w) ==
    /\ w # <<>>
    /\ \A k \in DOMAIN w :
          IsLetter(w[k]) \/ IsDigit(w[k]) \/ w[k] \in {"_", ".", "$", ":"}
    /\ ~IsDigit(w[1])

\* C10 (as claimed): parseLabel accepts a line only if it has at least 3
\* characters, begins with "(", ends with ")" and encloses a symbol, and the
\* label's literal is the enclosed text.
C10_LabelSyntax ==
    (res.fn = "parseLabel" /\ res.r.ok) =>
        /\ Len(arg) >= 3
        /\ arg[1] = "("
        /\ arg[Len(arg)] = ")"
        /\ IsSymbolText(Enclosed(arg))
        /\ res.r.ins.Literal = Enclosed(arg)

\* parse has returned: the scanner reached the end of the input or stopped
ParseFinished == line = Len(src) \/ scanErr

\* every declared label and every predefined symbol is in the symbol table
Pass1Finished ==
    /\ \A d \in DOMAIN instructions :
          instructions[d].kind = "L" =>
             /\ instructions[d].Literal \in DOMAIN symbolTable
             /\ symbolTable[instructions[d].Literal] = NonLabelsBefore(d)
    /\ \A k \in DOMAIN predefinedSymbols :
          k \in DOMAIN symbolTable /\ symbolTable[k] = predefinedSymbols[k]

\* some variable has been given an address
VariableAssigned ==
    \E p \in VariableRefs : instructions[p].Literal \in DOMAIN symbolTable

\* every symbolic A-instruction of the program has its address
AllResolved ==
    \A p \in SymbolRefs : instructions[p].Literal \in DOMAIN symbolTable

\* the first two orderings of C11: code runs only once parse has returned,
\* and a variable gets an address only once pass 1 and the merge are done
C11_ParseThenPass1ThenVariables ==
    /\ at \in {"pass1", "pass2"} => ParseFinished
    /\ VariableAssigned => (at \in {"pass2", "returned"} /\ Pass1Finished)

\* C11 (as claimed): parsing finishes before pass 1 starts, pass 1 and the
\* merge of the predefined symbols finish before any variable address is
\* assigned, and when the first line is written every symbolic
\* A-instruction of the program already has its address in the symbol table.
C11_PhaseOrdering ==
    /\ C11_ParseThenPass1ThenVariables
    /\ (out # <<>> /\ err # "write") => AllResolved

\* C12 (as claimed): when the scanner stops on an error before the end of
\* the source, Assemble does not report success.
C12_ReadFailureReported ==
    (scanErr /\ line < Len(src)) => ~Succeeded

====
